---- MODULE Spec2Model ----
(***************************************************************************)
(* Model of migrate-mongodb.sh: the shell script that moves the chat       *)
(* application's MongoDB from the Deployment mongodb-deployment (volume    *)
(* claim mongodb-pvc, volume mongodb-pv) to the StatefulSet mongodb (pod    *)
(* mongodb-0, claim mongodb-storage-mongodb-0), all in namespace chat-app. *)
(*                                                                         *)
(* The script is a straight line of kubectl calls under `set -e`; every    *)
(* call is one action, guarded by the script's position pc.  The cluster   *)
(* is the record `cluster`; its controllers (pod termination after a       *)
(* scale-down, pod creation by the StatefulSet) are actions of their own   *)
(* that interleave with the script.                                        *)
(***************************************************************************)
EXTENDS Integers, Sequences, FiniteSets, TLC

\* Bounds of the model.
MaxRecords == 3     \* the databases hold subsets of 1..MaxRecords
MaxRuns == 2        \* migrate is invoked at most MaxRuns times in a row

Records == 1..MaxRecords

VARIABLES
    cluster,    \* the objects of namespace chat-app and the data of the two instances
    manifest,   \* kind of the object k8s/mongodb-deployment.yml describes
    kubectlOk,  \* `command -v kubectl` succeeds
    clusterOk,  \* `kubectl cluster-info` succeeds
    pc,         \* position of the script
    OLD_DEPLOYMENT_EXISTS,
    exitCode,   \* -1 while the script runs
    out,        \* the messages printed so far in this run
    calls,      \* the cluster calls of this run that are not reads, in order
    outcome,    \* results of the calls whose failure the script tolerates
    atStart,    \* the cluster as it was when this run started
    run,        \* number of this run
    prevDone,   \* the previous run ended with the success report
    deploy,     \* a run of deploy.sh: argument, position, functions run, calls, output
    apps,       \* the namespace chat-app and the backend, frontend and ingress in it
    helm,       \* a run of the Helm wrapper: options, position, calls, output
    releases,   \* the Helm releases and the namespaces the wrapper can touch
    test        \* a run of test-mongodb.sh: position, results, calls, output

vars == <<cluster, manifest, kubectlOk, clusterOk, pc, OLD_DEPLOYMENT_EXISTS,
          exitCode, out, calls, outcome, atStart, run, prevDone,
          deploy, apps, helm, releases, test>>

scriptVars == <<pc, OLD_DEPLOYMENT_EXISTS, exitCode, out, calls, outcome>>
envVars == <<manifest, kubectlOk, clusterOk, deploy, apps, helm, releases, test>>
runVars == <<atStart, run, prevDone>>

\* /tmp/backup in a pod: absent, or a directory holding the dumped records.
NoDir == [dir |-> FALSE, dump |-> {}]
EmptyDir == [dir |-> TRUE, dump |-> {}]

\* The two MongoDB manifests of the repository.  The script applies whatever
\* file the working directory holds as k8s/mongodb-deployment.yml: the
\* repository has a Deployment under that name, while the script's messages and
\* deploy.sh (which waits for pod mongodb-0 after applying the same path) expect
\* the StatefulSet there.  A run starts with either.
LegacyManifest == [kind |-> "Deployment", name |-> "mongodb-deployment",
                   replicas |-> 1, podLabel |-> "mongodb-deployment",
                   claimName |-> "mongodb-pvc"]
ManagedManifest == [kind |-> "StatefulSet", name |-> "mongodb",
                    replicas |-> 1, podLabel |-> "mongodb",
                    claimName |-> "mongodb-storage-mongodb-0"]

\* The label selector of the script's wait for pod termination.
WaitSelector == "mongodb"

NoOutcome == [backup |-> "none", waitDelete |-> "none", waitReady |-> "none",
              restore |-> "none", ping |-> "none", mkdir |-> "none", rm |-> "none"]

\* The cluster states a run can start from.  The legacy pod mounts claim
\* mongodb-pvc and runs only when the claim exists.
InitialClusters ==
    { [depExists |-> d, depReplicas |-> IF d THEN 1 ELSE 0, legacyPod |-> d /\ v,
       pvc |-> v, pv |-> v, svc |-> s,
       stsExists |-> m, pod0 |-> IF m THEN "ready" ELSE "none", managedPvc |-> m,
       legacyData |-> IF d \/ v THEN r ELSE {},
       managedData |-> {}, legacyTmp |-> NoDir, pod0Tmp |-> NoDir] :
      d \in BOOLEAN, v \in BOOLEAN, s \in BOOLEAN, m \in BOOLEAN,
      r \in SUBSET Records }

\* deploy.sh and the Helm wrapper are not running during a migration, and the
\* migration touches neither the applications nor the Helm releases.
NotRunning == [pc |-> "idle"]
NotObserved == [observed |-> FALSE]

Init ==
    /\ deploy = NotRunning
    /\ apps = NotObserved
    /\ helm = NotRunning
    /\ releases = NotObserved
    /\ test = NotRunning
    /\ cluster \in InitialClusters
    /\ manifest \in {LegacyManifest, ManagedManifest}
    /\ kubectlOk \in BOOLEAN
    /\ clusterOk \in BOOLEAN
    /\ pc = "check_kubectl"
    /\ OLD_DEPLOYMENT_EXISTS = FALSE
    /\ exitCode = -1
    /\ out = {}
    /\ calls = <<>>
    /\ outcome = NoOutcome
    /\ atStart = cluster
    /\ run = 1
    /\ prevDone = FALSE

\* A command fails outside a condition or a `||` list: `set -e` ends the script.
ExitOnError ==
    /\ pc' = "failed"
    /\ exitCode' = 1

\* The topology the inspection of lines 57 and 63 finds.
Topology(c) ==
    IF c.stsExists THEN "Managed" ELSE IF c.depExists THEN "Legacy" ELSE "Absent"

\* Line 42: kubectl must be on the PATH.
CheckKubectl ==
    /\ pc = "check_kubectl"
    /\ IF kubectlOk
       THEN /\ pc' = "check_cluster"
            /\ UNCHANGED <<exitCode, out>>
       ELSE /\ out' = out \cup {"ERROR kubectl is not installed or not in PATH"}
            /\ pc' = "failed"
            /\ exitCode' = 1
    /\ UNCHANGED <<cluster, envVars, runVars, OLD_DEPLOYMENT_EXISTS, calls, outcome>>

\* Line 48: the cluster must answer.
CheckCluster ==
    /\ pc = "check_cluster"
    /\ IF clusterOk
       THEN /\ pc' = "inspect_deployment"
            /\ UNCHANGED <<exitCode, out>>
       ELSE /\ out' = out \cup {"ERROR Cannot connect to Kubernetes cluster"}
            /\ pc' = "failed"
            /\ exitCode' = 1
    /\ UNCHANGED <<cluster, envVars, runVars, OLD_DEPLOYMENT_EXISTS, calls, outcome>>

\* Mutant: the legacy Deployment is taken to exist whatever the cluster answers.
InspectDeploymentAlwaysFound ==
    /\ pc = "inspect_deployment"
    /\ OLD_DEPLOYMENT_EXISTS' = TRUE
    /\ out' = out \cup {"WARNING Found existing MongoDB deployment"}
    /\ pc' = "inspect_statefulset"
    /\ UNCHANGED <<cluster, envVars, runVars, exitCode, calls, outcome>>

\* Lines 56-60: kubectl get deployment mongodb-deployment.
InspectDeployment ==
    /\ pc = "inspect_deployment"
    /\ OLD_DEPLOYMENT_EXISTS' = cluster.depExists
    /\ out' = IF cluster.depExists
              THEN out \cup {"WARNING Found existing MongoDB deployment"}
              ELSE out
    /\ pc' = "inspect_statefulset"
    /\ UNCHANGED <<cluster, envVars, runVars, exitCode, calls, outcome>>

\* Mutant: the inspection asks for the legacy Deployment instead of the StatefulSet.
InspectedDeploymentInstead == cluster.depExists

\* The object the inspection of line 63 asks for.
InspectedStsExists == cluster.stsExists

\* Mutant: the inspection reports the StatefulSet and goes on instead of exiting.
InspectStatefulSetWithoutExit ==
    /\ pc = "inspect_statefulset"
    /\ out' = IF InspectedStsExists
              THEN out \cup {"SUCCESS MongoDB StatefulSet already exists"}
              ELSE out
    /\ pc' = IF OLD_DEPLOYMENT_EXISTS THEN "mkdir_backup" ELSE "delete_pvc"
    /\ UNCHANGED <<cluster, envVars, runVars, OLD_DEPLOYMENT_EXISTS, exitCode, calls,
                   outcome>>

\* Lines 62-67: kubectl get statefulset mongodb; exit 0 when it exists.
InspectStatefulSet ==
    /\ pc = "inspect_statefulset"
    /\ IF InspectedStsExists
       THEN /\ out' = out \cup {"SUCCESS MongoDB StatefulSet already exists"}
            /\ pc' = "already"
            /\ exitCode' = 0
       ELSE /\ pc' = IF OLD_DEPLOYMENT_EXISTS THEN "mkdir_backup" ELSE "delete_pvc"
            /\ UNCHANGED <<exitCode, out>>
    /\ UNCHANGED <<cluster, envVars, runVars, OLD_DEPLOYMENT_EXISTS, calls, outcome>>

\* kubectl exec deployment/mongodb-deployment reaches a pod only while one runs.
LegacyExecReachable == cluster.depExists /\ cluster.legacyPod

\* Line 74: mkdir -p /tmp/backup in the legacy pod, `|| true`.
MkdirBackup ==
    /\ pc = "mkdir_backup"
    /\ calls' = Append(calls, "exec mkdir")
    /\ cluster' = IF LegacyExecReachable /\ ~cluster.legacyTmp.dir
                  THEN [cluster EXCEPT !.legacyTmp = EmptyDir]
                  ELSE cluster
    /\ outcome' = [outcome EXCEPT !.mkdir = IF LegacyExecReachable THEN "ok" ELSE "failed"]
    /\ pc' = "dump"
    /\ UNCHANGED <<envVars, runVars, OLD_DEPLOYMENT_EXISTS, exitCode, out>>

\* What mongodump can answer: "ok", or a failure; without a pod exec itself fails.
DumpResults ==
    IF LegacyExecReachable THEN {"ok", "dataerror", "unreachable"} ELSE {"unreachable"}

\* Mutant: a failed dump ends the script.
AfterDumpFatal(result) == IF result = "ok" THEN "scale" ELSE "failed"

\* The position after the dump, whatever its result (line 77 ends in `|| print_warning`).
AfterDump(result) == "scale"

\* Line 77: mongodump --out /tmp/backup in the legacy pod, `|| print_warning`.
Dump ==
    /\ pc = "dump"
    /\ \E result \in DumpResults :
         /\ calls' = Append(calls, "exec mongodump")
         /\ outcome' = [outcome EXCEPT !.backup = result]
         /\ IF result = "ok"
            THEN /\ cluster' = [cluster EXCEPT
                                  !.legacyTmp = [dir |-> TRUE, dump |-> cluster.legacyData]]
                 /\ out' = out
            ELSE /\ cluster' = cluster
                 /\ out' = out \cup
                      {"WARNING Could not create backup (database might be empty)"}
         /\ pc' = AfterDump(result)
         /\ IF pc' = "failed" THEN exitCode' = 1 ELSE exitCode' = exitCode
    /\ UNCHANGED <<envVars, runVars, OLD_DEPLOYMENT_EXISTS>>

\* Line 81: kubectl scale deployment mongodb-deployment --replicas=0.
ScaleDown ==
    /\ pc = "scale"
    /\ calls' = Append(calls, "scale")
    /\ \E ok \in BOOLEAN :
         IF ok /\ cluster.depExists
         THEN /\ cluster' = [cluster EXCEPT !.depReplicas = 0]
              /\ pc' = "wait_delete"
              /\ exitCode' = exitCode
         ELSE /\ cluster' = cluster
              /\ ExitOnError
    /\ UNCHANGED <<envVars, runVars, OLD_DEPLOYMENT_EXISTS, out, outcome>>

\* The pods the selector of line 84 matches: the legacy pods carry the label of
\* the Deployment's pod template.
WaitMatchesLegacyPod == WaitSelector = LegacyManifest.podLabel

\* Line 84: kubectl wait --for=delete pod -l app=mongodb --timeout=60s || true.
WaitForDelete ==
    /\ pc = "wait_delete"
    /\ outcome' = [outcome EXCEPT !.waitDelete =
                     IF ~WaitMatchesLegacyPod THEN "nomatch"
                     ELSE IF cluster.legacyPod THEN "timeout" ELSE "deleted"]
    /\ pc' = "delete_pvc"
    /\ UNCHANGED <<cluster, envVars, runVars, OLD_DEPLOYMENT_EXISTS, exitCode, out, calls>>

\* Mutant: the legacy pod template does not refer to the claim.
PvcNeverInUse == FALSE

\* A claim a pod still uses is only marked for deletion; kubectl delete returns
\* once the claim is gone.
PvcInUse == cluster.pvc /\ cluster.legacyPod

\* Line 89: kubectl delete pvc mongodb-pvc `|| echo`.
DeletePvc ==
    /\ pc = "delete_pvc"
    /\ ~PvcInUse
    /\ calls' = Append(calls, "delete pvc")
    /\ IF cluster.pvc
       THEN /\ cluster' = [cluster EXCEPT !.pvc = FALSE]
            /\ out' = out
       ELSE /\ cluster' = cluster
            /\ out' = out \cup {"No old PVC to delete"}
    /\ pc' = "delete_pv"
    /\ UNCHANGED <<envVars, runVars, OLD_DEPLOYMENT_EXISTS, exitCode, outcome>>

\* Line 90: kubectl delete pv mongodb-pv `|| echo`.
DeletePv ==
    /\ pc = "delete_pv"
    /\ calls' = Append(calls, "delete pv")
    /\ IF cluster.pv
       THEN /\ cluster' = [cluster EXCEPT !.pv = FALSE]
            /\ out' = out
       ELSE /\ cluster' = cluster
            /\ out' = out \cup {"No old PV to delete"}
    /\ pc' = "apply"
    /\ UNCHANGED <<envVars, runVars, OLD_DEPLOYMENT_EXISTS, exitCode, outcome>>

\* The cluster after kubectl apply of manifest m.
Applied(c, m) ==
    IF m.kind = "StatefulSet"
    THEN [c EXCEPT !.stsExists = TRUE]
    ELSE [c EXCEPT !.depExists = TRUE, !.depReplicas = m.replicas]

\* Line 94: kubectl apply -f k8s/mongodb-deployment.yml.
ApplyManifest ==
    /\ pc = "apply"
    /\ calls' = Append(calls, "apply")
    /\ \E ok \in BOOLEAN :
         IF ok
         THEN /\ cluster' = Applied(cluster, manifest)
              /\ pc' = "wait_ready"
              /\ exitCode' = exitCode
         ELSE /\ cluster' = cluster
              /\ ExitOnError
    /\ UNCHANGED <<envVars, runVars, OLD_DEPLOYMENT_EXISTS, out, outcome>>

\* Line 98: kubectl wait --for=condition=ready pod/mongodb-0 --timeout=300s.
\* It fails when the pod does not exist or is not ready when the time is up.
WaitReady ==
    /\ pc = "wait_ready"
    /\ outcome' = [outcome EXCEPT !.waitReady =
                     IF cluster.pod0 = "ready" THEN "ok"
                     ELSE IF cluster.pod0 = "pending" THEN "timeout" ELSE "notfound"]
    /\ IF cluster.pod0 = "ready"
       THEN /\ pc' = IF OLD_DEPLOYMENT_EXISTS THEN "restore" ELSE "verify"
            /\ exitCode' = exitCode
       ELSE ExitOnError
    /\ UNCHANGED <<cluster, envVars, runVars, OLD_DEPLOYMENT_EXISTS, out, calls>>

\* Mutant: the legacy pod loses its scratch directory but never ends.
LegacyPodStaysUp ==
    /\ cluster.legacyPod
    /\ ~cluster.depExists \/ cluster.depReplicas = 0
    /\ cluster' = [cluster EXCEPT !.legacyTmp = NoDir]
    /\ UNCHANGED <<envVars, runVars, scriptVars>>

\* The Deployment controller ends the legacy pod once no replica is wanted; the
\* pod's own file system, /tmp/backup included, goes with it.
LegacyPodTerminates ==
    /\ cluster.legacyPod
    /\ ~cluster.depExists \/ cluster.depReplicas = 0
    /\ cluster' = [cluster EXCEPT !.legacyPod = FALSE, !.legacyTmp = NoDir]
    /\ UNCHANGED <<envVars, runVars, scriptVars>>

\* The StatefulSet controller creates pod mongodb-0 and its claim from the
\* volumeClaimTemplates; the new instance starts empty.
StatefulSetCreatesPod ==
    /\ cluster.stsExists
    /\ cluster.pod0 = "none"
    /\ cluster' = [cluster EXCEPT !.pod0 = "pending", !.managedPvc = TRUE,
                                  !.managedData = {}, !.pod0Tmp = NoDir]
    /\ UNCHANGED <<envVars, runVars, scriptVars>>

\* Pod mongodb-0 becomes ready.
Pod0BecomesReady ==
    /\ cluster.pod0 = "pending"
    /\ cluster' = [cluster EXCEPT !.pod0 = "ready"]
    /\ UNCHANGED <<envVars, runVars, scriptVars>>

\* The script never copies the dump into mongodb-0; /tmp/backup is there at
\* line 105 only when it was put there from outside the script (kubectl cp by
\* the operator).
BackupCopiedIntoPod0 ==
    /\ cluster.pod0 = "ready"
    /\ ~cluster.pod0Tmp.dir
    /\ cluster' = [cluster EXCEPT
                     !.pod0Tmp = [dir |-> TRUE, dump |-> cluster.legacyData]]
    /\ UNCHANGED <<envVars, runVars, scriptVars>>

\* What the restore block can do: without /tmp/backup in mongodb-0 the `ls` of
\* line 105 fails and nothing is restored.
RestoreResults ==
    IF cluster.pod0Tmp.dir THEN {"ok", "failed"} ELSE {"nobackup"}

\* Line 110: rm -rf /tmp/backup in mongodb-0, `2>/dev/null || true`.
RemoveResults == {"ok", "failed"}

\* Mutant: a failed mongorestore ends the script.
AfterRestoreFatal(result) ==
    IF result = "failed" THEN "failed" ELSE "delete_deployment"

\* The position after the restore block, whatever its result: every command of
\* the block is followed by `||`.
AfterRestore(result) == "delete_deployment"

\* Lines 101-112: ls /tmp/backup in mongodb-0 && { mongorestore || warning;
\* rm -rf /tmp/backup || true; } || warning.
Restore ==
    /\ pc = "restore"
    /\ \E result \in RestoreResults, removed \in RemoveResults :
         /\ outcome' = [outcome EXCEPT !.restore = result,
                                       !.rm = IF result = "nobackup" THEN "none" ELSE removed]
         /\ calls' = IF result = "nobackup"
                     THEN Append(calls, "exec ls")
                     ELSE calls \o <<"exec ls", "exec mongorestore", "exec rm">>
         /\ cluster' = [cluster EXCEPT
                          !.managedData = IF result = "ok"
                                          THEN cluster.managedData \cup cluster.pod0Tmp.dump
                                          ELSE @,
                          !.pod0Tmp = IF removed = "ok" THEN NoDir ELSE @]
         /\ out' = IF result = "nobackup"
                   THEN out \cup {"WARNING No backup found to restore"}
                   ELSE IF result = "failed"
                   THEN out \cup {"WARNING Could not restore backup"}
                   ELSE out
         /\ pc' = AfterRestore(result)
    /\ UNCHANGED <<envVars, runVars, OLD_DEPLOYMENT_EXISTS, exitCode>>

\* Lines 115-118: kubectl delete deployment mongodb-deployment.
DeleteDeployment ==
    /\ pc = "delete_deployment"
    /\ calls' = Append(calls, "delete deployment")
    /\ \E ok \in BOOLEAN :
         IF ok /\ cluster.depExists
         THEN /\ cluster' = [cluster EXCEPT !.depExists = FALSE, !.depReplicas = 0]
              /\ pc' = "verify"
              /\ exitCode' = exitCode
         ELSE /\ cluster' = cluster
              /\ ExitOnError
    /\ UNCHANGED <<envVars, runVars, OLD_DEPLOYMENT_EXISTS, out, outcome>>

\* Lines 122-125 succeed: the StatefulSet exists and each listing has a line
\* that holds "mongodb" for grep.
ListingsSucceed ==
    /\ cluster.stsExists
    /\ cluster.pod0 # "none" \/ cluster.legacyPod
    /\ cluster.svc
    /\ cluster.pvc \/ cluster.managedPvc

\* Lines 121-125: four reads, each ending the script when it fails.
VerifyResources ==
    /\ pc = "verify"
    /\ IF ListingsSucceed
       THEN /\ pc' = "ping"
            /\ exitCode' = exitCode
       ELSE ExitOnError
    /\ UNCHANGED <<cluster, envVars, runVars, OLD_DEPLOYMENT_EXISTS, out, calls, outcome>>

\* The position after the ping, whatever its result (line 131 ends in
\* `|| print_warning`).
AfterPing(result) == "report"

\* Lines 128-131: mongo --eval "db.adminCommand('ping')" in mongodb-0.
Ping ==
    /\ pc = "ping"
    /\ calls' = Append(calls, "exec ping")
    /\ \E result \in {"ok", "failed"} :
         /\ outcome' = [outcome EXCEPT !.ping = result]
         /\ out' = out \cup {IF result = "ok"
                             THEN "SUCCESS MongoDB is responding to ping"
                             ELSE "WARNING MongoDB ping failed"}
         /\ pc' = AfterPing(result)
         /\ IF pc' = "failed" THEN exitCode' = 1 ELSE exitCode' = exitCode
    /\ UNCHANGED <<cluster, envVars, runVars, OLD_DEPLOYMENT_EXISTS>>

\* Lines 133-146: the success report; the script ends with status 0.
Report ==
    /\ pc = "report"
    /\ out' = out \cup {"SUCCESS Migration completed successfully!"}
    /\ pc' = "done"
    /\ exitCode' = 0
    /\ UNCHANGED <<cluster, envVars, runVars, OLD_DEPLOYMENT_EXISTS, calls, outcome>>

Terminal == {"done", "already", "failed", "interrupted"}

\* The operator interrupts the script between two of its commands.
Interrupt ==
    /\ pc \notin Terminal
    /\ pc' = "interrupted"
    /\ exitCode' = 130
    /\ UNCHANGED <<cluster, envVars, runVars, OLD_DEPLOYMENT_EXISTS, out, calls, outcome>>

\* The operator invokes the script again after it has ended.
RunAgain ==
    /\ pc \in Terminal
    /\ run < MaxRuns
    /\ run' = run + 1
    /\ prevDone' = (pc = "done")
    /\ atStart' = cluster
    /\ pc' = "check_kubectl"
    /\ OLD_DEPLOYMENT_EXISTS' = FALSE
    /\ exitCode' = -1
    /\ out' = {}
    /\ calls' = <<>>
    /\ outcome' = NoOutcome
    /\ UNCHANGED <<cluster, envVars>>

Next ==
    \/ CheckKubectl
    \/ CheckCluster
    \/ InspectDeployment
    \/ InspectStatefulSet
    \/ MkdirBackup
    \/ Dump
    \/ ScaleDown
    \/ WaitForDelete
    \/ DeletePvc
    \/ DeletePv
    \/ ApplyManifest
    \/ WaitReady
    \/ Restore
    \/ DeleteDeployment
    \/ VerifyResources
    \/ Ping
    \/ Report
    \/ Interrupt
    \/ RunAgain
    \/ LegacyPodTerminates
    \/ StatefulSetCreatesPod
    \/ Pod0BecomesReady
    \/ BackupCopiedIntoPod0

Spec == Init /\ [][Next]_vars

----------------------------------------------------------------------------
\* Vocabulary of the claims.

\* The cluster objects only the script changes (pods belong to the controllers).
Objects(c) == <<c.depExists, c.depReplicas, c.pvc, c.pv, c.stsExists, c.svc>>

\* The legacy Deployment and its storage binding are as they were at the start.
LegacyUntouched ==
    /\ cluster.depExists = atStart.depExists
    /\ cluster.depReplicas = atStart.depReplicas
    /\ cluster.pvc = atStart.pvc
    /\ cluster.pv = atStart.pv

\* This run has deleted the claim or the volume of the legacy instance.
LegacyBindingDeleted ==
    \/ atStart.pvc /\ ~cluster.pvc
    \/ atStart.pv /\ ~cluster.pv

FullyLegacy(c) ==
    c.depExists /\ c.depReplicas >= 1 /\ c.pvc /\ c.pv /\ ~c.stsExists

FullyManaged(c) == c.stsExists /\ c.pod0 = "ready" /\ c.managedPvc

Issued(call) == \E i \in 1..Len(calls) : calls[i] = call

\* Everything the script prints through print_error.
ErrorMessages ==
    {"ERROR kubectl is not installed or not in PATH",
     "ERROR Cannot connect to Kubernetes cluster"}

SuccessReport == "SUCCESS Migration completed successfully!"
AlreadyMigrated == "SUCCESS MongoDB StatefulSet already exists"

----------------------------------------------------------------------------
\* C1: in every run the legacy storage binding (mongodb-pvc, mongodb-pv) is
\* deleted only after a backup attempt of that run has completed, also when the
\* run starts without the legacy Deployment but with the claim and the volume.
C1_BindingDeletedOnlyAfterBackup ==
    LegacyBindingDeleted => outcome.backup # "none"

\* C2: the deletion of Deployment mongodb-deployment is issued only directly
\* after a liveness ping that succeeded.
C2_CleaningOnlyAfterVerified ==
    \A i \in 1..Len(calls) :
        calls[i] = "delete deployment" =>
            /\ i > 1
            /\ calls[i - 1] = "exec ping"
            /\ outcome.ping = "ok"

\* C3: a run that follows a run that reached the success report issues no exec,
\* scale, delete or apply, and ends reporting the StatefulSet as already there
\* with status 0.
C3_SecondRunIsNoOp ==
    (run > 1 /\ prevDone) =>
        /\ calls = <<>>
        /\ Objects(cluster) = Objects(atStart)
        /\ pc \in Terminal \ {"interrupted"} =>
               pc = "already" /\ exitCode = 0 /\ AlreadyMigrated \in out

\* C3 witness: the second run after a completed first run has ended.
C3_Witness == run > 1 /\ prevDone /\ pc = "already" /\ exitCode = 0

\* C4: a run from the Legacy topology whose dump succeeded and whose restore did
\* not fail ends, when it ends with the success report, with mongodb-0 holding
\* exactly the records the legacy instance held.
C4_DataPreserved ==
    ( /\ pc = "done"
      /\ Topology(atStart) = "Legacy"
      /\ outcome.backup = "ok"
      /\ outcome.restore # "failed" ) =>
        cluster.managedData = atStart.legacyData

\* C5: after the dump of a non-empty legacy instance failed with a data error,
\* the legacy Deployment and its storage binding stay as they were and the run
\* does not end with status 0.
C5_DataErrorAborts ==
    (outcome.backup = "dataerror" /\ atStart.legacyData # {}) =>
        /\ LegacyUntouched
        /\ exitCode # 0

\* C6: when the wait for mongodb-0 times out on the Legacy path, the run ends
\* with a non-zero status, the legacy Deployment still exists with zero
\* replicas, and the failure is reported.
C6_ReadinessTimeoutReported ==
    (outcome.waitReady = "timeout" /\ OLD_DEPLOYMENT_EXISTS) =>
        /\ pc = "failed" /\ exitCode # 0
        /\ cluster.depExists /\ cluster.depReplicas = 0
        /\ out \cap ErrorMessages # {}

\* C7: a run from the Absent topology issues no dump and no restore and, once
\* mongodb-0 was found ready, ends with status 0 unless it is interrupted.
C7_AbsentProvisionsDirectly ==
    Topology(atStart) = "Absent" =>
        /\ ~Issued("exec mongodump")
        /\ ~Issued("exec mongorestore")
        /\ (outcome.waitReady = "ok" /\ pc \in Terminal \ {"interrupted"}) =>
               pc = "done" /\ exitCode = 0

\* C8: when the StatefulSet exists at the start of a run, with or without the
\* legacy Deployment, the run issues no exec, scale, delete or apply, leaves
\* every object as it was, and when it ends after its inspection it reports the
\* StatefulSet as already there with status 0.
C8_ManagedIsNoOp ==
    Topology(atStart) = "Managed" =>
        /\ calls = <<>>
        /\ Objects(cluster) = Objects(atStart)
        /\ (pc \in Terminal \ {"interrupted"} /\ kubectlOk /\ clusterOk) =>
               pc = "already" /\ exitCode = 0 /\ AlreadyMigrated \in out

\* C8 witness: a run that found both the StatefulSet and the legacy Deployment
\* has ended.
C8_Witness ==
    atStart.stsExists /\ atStart.depExists /\ pc = "already" /\ exitCode = 0

\* C9: after a failed liveness ping the run does not print the success report
\* and does not end with status 0.
C9_PingFailureIsFatal ==
    outcome.ping = "failed" =>
        /\ pc \notin {"report", "done"}
        /\ SuccessReport \notin out
        /\ exitCode # 0

\* C10: a run that started from the full Legacy topology and is interrupted
\* between two commands leaves the cluster fully Legacy or fully Managed.
C10_InterruptLeavesStableState ==
    (pc = "interrupted" /\ FullyLegacy(atStart)) =>
        FullyLegacy(cluster) \/ FullyManaged(cluster)

----------------------------------------------------------------------------
\* The legacy pod has the volume of claim mongodb-pvc mounted while it runs.
LegacyBindingActive(c) == c.legacyPod

\* Pod mongodb-0 has the volume of claim mongodb-storage-mongodb-0.
ManagedBindingActive(c) == c.pod0 # "none" /\ c.managedPvc

BothBindingsActive(c) == LegacyBindingActive(c) /\ ManagedBindingActive(c)

LastCall == IF calls = <<>> THEN "none" ELSE calls[Len(calls)]

BackupWarning == "WARNING Could not create backup (database might be empty)"
RestoreWarning == "WARNING Could not restore backup"

C12_RestoreFailureIsNotFatal ==
    outcome.restore = "failed" =>
        /\ RestoreWarning \in out
        /\ pc \in {"delete_deployment", "interrupted"} \/ Issued("delete deployment")

\* C12 witness: a run whose mongorestore failed ended with the success report.
C12_Witness == outcome.restore = "failed" /\ pc = "done" /\ exitCode = 0

\* C13: a failed deletion of the legacy Deployment does not make the run fail.
C13_CleanupErrorIsNotFatal ==
    ~(pc = "failed" /\ LastCall = "delete deployment")

C15_ArtifactKeptUntilVerified ==
    /\ (outcome.backup = "ok" /\ outcome.ping # "ok") =>
           cluster.legacyTmp.dir \/ cluster.pod0Tmp.dir
    /\ (outcome.restore = "failed" /\ outcome.ping # "ok") => cluster.pod0Tmp.dir

\* C16: when the dump fails because the legacy instance is unreachable, or fails
\* on an empty instance, the warning is printed and the script goes on to the
\* scale-down: it does not end at the dump.
C16_SoftBackupFailureProceeds ==
    ( \/ outcome.backup = "unreachable"
      \/ outcome.backup = "dataerror" /\ atStart.legacyData = {} ) =>
        /\ BackupWarning \in out
        /\ pc \in {"scale", "interrupted"} \/ Issued("scale")

\* C16 witness: after a dump that could not reach the instance the script has
\* scaled the Deployment down and deleted the claim.
C16_Witness ==
    /\ outcome.backup = "unreachable"
    /\ Issued("scale")
    /\ Issued("delete pvc")
    /\ cluster.depReplicas = 0

----------------------------------------------------------------------------
(***************************************************************************)
(* deploy.sh: the script that deploys the whole application with kubectl.  *)
(* `deploy` is one run of it: its argument, the value of `action`, its     *)
(* position, the functions it has entered, every kubectl call it has made, *)
(* its messages and its exit status.  `apps` holds the objects of the      *)
(* cluster beside MongoDB; MongoDB's own objects stay in `cluster`.        *)
(***************************************************************************)

\* $1 is absent, empty, one of the words of the case statement, or another word.
NoArg == "<none>"
Words == {"deploy", "status", "health", "access", "cleanup", "help"}
DeployArgs == {NoArg, "", "-h", "--help", "restart"} \cup Words

\* The answers to `read -n 1 -r`: one key, or Enter; REPLY before any read.
Replies == {"y", "Y", "n", ""}
NoReply == "<unset>"

\* Mutant: Enter alone counts as a yes.
YesByDefault(reply) == reply \in {"y", "Y", ""}

\* Line 137 and line 278: [[ $REPLY =~ ^[Yy]$ ]].
Yes(reply) == reply \in {"y", "Y"}

\* deploy_application line by line: every kubectl apply and every wait.
DeployPlan == <<
    [op |-> "apply", on |-> "k8s/namespace.yml"],
    [op |-> "apply", on |-> "k8s/secrets.yml"],
    [op |-> "apply", on |-> "k8s/mongodb-deployment.yml"],
    [op |-> "apply", on |-> "k8s/mongodb-headless-service.yml"],
    [op |-> "apply", on |-> "k8s/mongodb-service.yml"],
    [op |-> "wait_for_statefulset", on |-> "pod/mongodb-0"],
    [op |-> "apply", on |-> "k8s/backend-deployment.yml"],
    [op |-> "apply", on |-> "k8s/backend-service.yml"],
    [op |-> "wait_for_deployment", on |-> "deployment/backend-deployment"],
    [op |-> "apply", on |-> "k8s/frontend-deployment.yml"],
    [op |-> "apply", on |-> "k8s/frontend-service.yml"],
    [op |-> "wait_for_deployment", on |-> "deployment/frontend-deployment"],
    [op |-> "apply", on |-> "k8s/ingress.yml"] >>

\* The applications before any deployment, and after a complete one.
NoApps == [namespace |-> FALSE, secrets |-> FALSE, backend |-> "none",
           frontend |-> "none", ingress |-> FALSE]
AllApps == [namespace |-> TRUE, secrets |-> TRUE, backend |-> "available",
            frontend |-> "available", ingress |-> TRUE]

\* The records of the databases play no part in deploy.sh: its runs start
\* from the clusters with empty volumes.  Without the namespace there is no
\* object in it.
DeployClusters(a) ==
    { c \in InitialClusters :
        /\ c.legacyData = {}
        /\ ~a.namespace =>
             ~(c.depExists \/ c.stsExists \/ c.pvc \/ c.svc) }

StartOfDeploy(arg) ==
    [arg |-> arg, action |-> "", pc |-> "main", step |-> 1, ran |-> <<>>,
     calls |-> <<>>, out |-> {}, exit |-> -1, REPLY |-> NoReply]

InitDeploy ==
    /\ apps \in {NoApps, AllApps}
    /\ cluster \in DeployClusters(apps)
    /\ manifest \in {LegacyManifest, ManagedManifest}
    /\ kubectlOk \in BOOLEAN
    /\ clusterOk \in BOOLEAN
    /\ deploy \in {StartOfDeploy(arg) : arg \in DeployArgs}
    /\ helm = NotRunning
    /\ releases = NotObserved
    /\ test = NotRunning
    /\ pc = "idle"
    /\ OLD_DEPLOYMENT_EXISTS = FALSE
    /\ exitCode = -1
    /\ out = {}
    /\ calls = <<>>
    /\ outcome = NoOutcome
    /\ atStart = cluster
    /\ run = 1
    /\ prevDone = FALSE

\* What deploy.sh leaves alone.
deployFrame == <<manifest, kubectlOk, clusterOk, helm, releases, test, scriptVars,
                 runVars>>

\* The script ends: `exit 1`, a failed command under `set -e`, or its last line.
Exited(d, status) == [d EXCEPT !.pc = "exited", !.exit = status]

Enter(d, function) == [d EXCEPT !.ran = Append(d.ran, function)]
Kubectl(d, call) == [d EXCEPT !.calls = Append(d.calls, call)]
Say(d, level, text) == [d EXCEPT !.out = d.out \cup {<<level, text>>}]

\* Mutant: without an argument the script shows the status.
DefaultActionStatus == "status"

\* Line 314: local action=${1:-deploy}.
DefaultAction == "deploy"
ActionOf(arg) == IF arg \in {NoArg, ""} THEN DefaultAction ELSE arg

\* Lines 316-358: the branch of the case statement an action selects.
Checked == {"deploy", "status", "health", "access", "cleanup"}
HelpWords == {"help", "-h", "--help"}
FirstOf(action) ==
    IF action \in Checked THEN "check_kubectl"
    ELSE IF action \in HelpWords THEN "show_help" ELSE "unknown"

\* Mutant: status deploys before it shows the status.
AfterChecksStatusDeploys(action) ==
    CASE action \in {"deploy", "status"} -> "check_k8s_files"
      [] action = "health" -> "run_health_checks"
      [] action = "access" -> "show_access_info"
      [] action = "cleanup" -> "cleanup"

\* What follows check_cluster in each branch.
AfterChecks(action) ==
    CASE action = "deploy" -> "check_k8s_files"
      [] action = "status" -> "show_status"
      [] action = "health" -> "run_health_checks"
      [] action = "access" -> "show_access_info"
      [] action = "cleanup" -> "cleanup"

main ==
    /\ deploy.pc = "main"
    /\ deploy' = [deploy EXCEPT !.action = ActionOf(deploy.arg),
                                !.pc = FirstOf(ActionOf(deploy.arg))]
    /\ UNCHANGED <<cluster, apps, deployFrame>>

\* Lines 41-47: `command -v kubectl`, which is no call to the cluster.
check_kubectl ==
    /\ deploy.pc = "check_kubectl"
    /\ deploy' = IF kubectlOk
                 THEN [Say(Enter(deploy, "check_kubectl"),
                           "SUCCESS", "kubectl is available") EXCEPT !.pc = "check_cluster"]
                 ELSE Exited(Say(Enter(deploy, "check_kubectl"),
                                 "ERROR", "kubectl is not installed or not in PATH"), 1)
    /\ UNCHANGED <<cluster, apps, deployFrame>>

\* Lines 50-57: kubectl cluster-info.
check_cluster ==
    /\ deploy.pc = "check_cluster"
    /\ LET d == Kubectl(Enter(deploy, "check_cluster"), "cluster-info")
       IN deploy' = IF clusterOk
                    THEN [Say(d, "SUCCESS", "Kubernetes cluster is accessible") EXCEPT
                            !.pc = AfterChecks(deploy.action)]
                    ELSE Exited(Say(d, "ERROR", "Cannot connect to Kubernetes cluster"), 1)
    /\ UNCHANGED <<cluster, apps, deployFrame>>

\* Mutant: a missing manifest is reported and the script goes on.
check_k8s_files_reporting ==
    /\ deploy.pc = "check_k8s_files"
    /\ \E present \in BOOLEAN :
         deploy' = [Say(Enter(deploy, "check_k8s_files"),
                        IF present THEN "SUCCESS" ELSE "ERROR",
                        IF present THEN "All required Kubernetes files found"
                        ELSE "Required file not found") EXCEPT
                      !.pc = "check_ingress_controller"]
    /\ UNCHANGED <<cluster, apps, deployFrame>>

\* Lines 60-87: the directory k8s and the ten manifests are there, or exit 1.
check_k8s_files ==
    /\ deploy.pc = "check_k8s_files"
    /\ \E present \in BOOLEAN :
         deploy' = IF present
                   THEN [Say(Enter(deploy, "check_k8s_files"),
                             "SUCCESS", "All required Kubernetes files found") EXCEPT
                           !.pc = "check_ingress_controller"]
                   ELSE Exited(Say(Enter(deploy, "check_k8s_files"),
                                   "ERROR", "Required file not found"), 1)
    /\ UNCHANGED <<cluster, apps, deployFrame>>

\* Lines 126-141: without an ingress controller the user is asked whether to
\* go on; any answer but y or Y ends the script with status 1.
check_ingress_controller ==
    /\ deploy.pc = "check_ingress_controller"
    /\ \E found \in BOOLEAN, REPLY \in Replies :
         LET d == Kubectl(Enter(deploy, "check_ingress_controller"),
                          "get pods -n ingress-nginx")
             asked == [Say(d, "WARNING", "NGINX Ingress Controller not found") EXCEPT
                         !.REPLY = REPLY]
         IN deploy' = IF found
                      THEN [Say(d, "SUCCESS", "NGINX Ingress Controller found") EXCEPT
                              !.pc = "deploy_application"]
                      ELSE IF Yes(REPLY)
                      THEN [asked EXCEPT !.pc = "deploy_application"]
                      ELSE Exited(asked, 1)
    /\ UNCHANGED <<cluster, apps, deployFrame>>

\* The next line of deploy_application; after line 181 the function returns to
\* main, which calls show_status.
Advance(d) ==
    IF d.step = Len(DeployPlan)
    THEN [Say(d, "SUCCESS", "Deployment completed!") EXCEPT !.pc = "show_status"]
    ELSE [d EXCEPT !.step = d.step + 1]

\* deploy_application is entered at its first line.
InDeploy(d) == IF d.step = 1 THEN Enter(d, "deploy_application") ELSE d

\* The objects beside MongoDB after kubectl apply of a manifest.
AppsAfterApply(a, file) ==
    CASE file = "k8s/namespace.yml" -> [a EXCEPT !.namespace = TRUE]
      [] file = "k8s/secrets.yml" -> [a EXCEPT !.secrets = TRUE]
      [] file = "k8s/backend-deployment.yml" ->
           [a EXCEPT !.backend = IF @ = "none" THEN "progressing" ELSE @]
      [] file = "k8s/frontend-deployment.yml" ->
           [a EXCEPT !.frontend = IF @ = "none" THEN "progressing" ELSE @]
      [] file = "k8s/ingress.yml" -> [a EXCEPT !.ingress = TRUE]
      [] OTHER -> a

ClusterAfterApply(c, file) ==
    CASE file = "k8s/mongodb-deployment.yml" -> Applied(c, manifest)
      [] file \in {"k8s/mongodb-headless-service.yml", "k8s/mongodb-service.yml"} ->
           [c EXCEPT !.svc = TRUE]
      [] OTHER -> c

\* Lines 149-181: one kubectl apply of deploy_application.  A failed apply ends
\* the script (set -e).
deploy_application ==
    /\ deploy.pc = "deploy_application"
    /\ DeployPlan[deploy.step].op = "apply"
    /\ LET file == DeployPlan[deploy.step].on
           d == Kubectl(InDeploy(deploy), file)
       IN \E ok \in BOOLEAN :
            IF ok
            THEN /\ deploy' = Advance(d)
                 /\ apps' = AppsAfterApply(apps, file)
                 /\ cluster' = ClusterAfterApply(cluster, file)
            ELSE /\ deploy' = Exited(d, 1)
                 /\ UNCHANGED <<apps, cluster>>
    /\ UNCHANGED deployFrame

\* Mutant: a wait that fails is only reported.
WaitIgnored(d, met, what) ==
    Advance(Say(d, "INFO", what))

\* Lines 96-104 and 114-122: the wait succeeded ("<what> is ready"), or the
\* error ("<what> failed to become ready within 300 seconds") is printed, the
\* pods are listed and described and the script exits with status 1.
Waited(d, met, what) ==
    IF met
    THEN Advance(Say(d, "SUCCESS", what))
    ELSE Exited(Kubectl(Kubectl(Say(d, "ERROR", what),
                                "get pods -n chat-app"), "describe"), 1)

\* Lines 108-123: kubectl wait --for=condition=ready pod/mongodb-0, 300 s.
wait_for_statefulset ==
    /\ deploy.pc = "deploy_application"
    /\ DeployPlan[deploy.step].op = "wait_for_statefulset"
    /\ LET what == DeployPlan[deploy.step].on
           d == Kubectl(Enter(deploy, "wait_for_statefulset"), what)
       IN deploy' = Waited(d, cluster.pod0 = "ready", what)
    /\ UNCHANGED <<cluster, apps, deployFrame>>

DeploymentState(a, name) ==
    IF name = "deployment/backend-deployment" THEN a.backend ELSE a.frontend

\* Mutant: a deployment that is not available in time is reported and the
\* script goes on.
wait_for_deployment_reporting ==
    /\ deploy.pc = "deploy_application"
    /\ DeployPlan[deploy.step].op = "wait_for_deployment"
    /\ LET what == DeployPlan[deploy.step].on
           d == Kubectl(Enter(deploy, "wait_for_deployment"), what)
       IN deploy' = IF DeploymentState(apps, what) = "available"
                    THEN Advance(Say(d, "SUCCESS", what))
                    ELSE Advance(Say(d, "ERROR", what))
    /\ UNCHANGED <<cluster, apps, deployFrame>>

\* Lines 90-105: kubectl wait --for=condition=available deployment/<name>, 300 s.
wait_for_deployment ==
    /\ deploy.pc = "deploy_application"
    /\ DeployPlan[deploy.step].op = "wait_for_deployment"
    /\ LET what == DeployPlan[deploy.step].on
           d == Kubectl(Enter(deploy, "wait_for_deployment"), what)
       IN deploy' = Waited(d, DeploymentState(apps, what) = "available", what)
    /\ UNCHANGED <<cluster, apps, deployFrame>>

\* The Deployment controller brings the backend and the frontend up.
BackendBecomesAvailable ==
    /\ apps.backend = "progressing"
    /\ apps' = [apps EXCEPT !.backend = "available"]
    /\ UNCHANGED <<cluster, deploy, deployFrame>>

FrontendBecomesAvailable ==
    /\ apps.frontend = "progressing"
    /\ apps' = [apps EXCEPT !.frontend = "available"]
    /\ UNCHANGED <<cluster, deploy, deployFrame>>

KubectlAll(d, more) == [d EXCEPT !.calls = d.calls \o more]

\* Lines 322-328: in the branch "deploy" main goes on with show_status,
\* show_access_info and run_health_checks; every other branch ends after its
\* one function.
AfterFunction(action, function) ==
    IF action = "deploy" /\ function = "show_status" THEN "show_access_info"
    ELSE IF action = "deploy" /\ function = "show_access_info" THEN "run_health_checks"
    ELSE "end"

Return(d, function) ==
    IF AfterFunction(d.action, function) = "end"
    THEN Exited(d, 0)
    ELSE [d EXCEPT !.pc = AfterFunction(d.action, function)]

\* Lines 188-210: five reads.  kubectl get namespace chat-app fails when the
\* namespace is not there, and set -e ends the script.
show_status ==
    /\ deploy.pc = "show_status"
    /\ LET d == Kubectl(Enter(deploy, "show_status"), "get namespace chat-app")
       IN deploy' = IF apps.namespace
                    THEN Return(KubectlAll(d, <<"get all", "get pvc", "get secrets",
                                               "get ingress">>), "show_status")
                    ELSE Exited(d, 1)
    /\ UNCHANGED <<cluster, apps, deployFrame>>

\* Lines 213-247: with Minikube its IP is shown; otherwise the ingress is read,
\* and a failure of that read is replaced by "Pending".
show_access_info ==
    /\ deploy.pc = "show_access_info"
    /\ \E minikube \in BOOLEAN :
         LET d == Enter(deploy, "show_access_info")
         IN deploy' = Return(IF minikube THEN d ELSE Kubectl(d, "get ingress"),
                             "show_access_info")
    /\ UNCHANGED <<cluster, apps, deployFrame>>

\* A pod of the namespace that is not running.
UnhealthyPods ==
    \/ cluster.pod0 = "pending"
    \/ apps.backend = "progressing"
    \/ apps.frontend = "progressing"

\* Lines 250-270: the pods are counted and listed, described when some are not
\* running, and the endpoints are listed.
run_health_checks ==
    /\ deploy.pc = "run_health_checks"
    /\ LET d == KubectlAll(Enter(deploy, "run_health_checks"),
                            <<"get pods --field-selector", "get pods -n chat-app">>)
       IN deploy' = Return(KubectlAll(IF UnhealthyPods
                                      THEN Kubectl(Say(d, "WARNING", "Some pods are not running"),
                                                   "describe")
                                      ELSE Say(d, "SUCCESS", "All pods are running"),
                                      <<"get endpoints">>),
                           "run_health_checks")
    /\ UNCHANGED <<cluster, apps, deployFrame>>

\* Deleting the namespace deletes every object in it; the volume mongodb-pv
\* is not in a namespace.
WithoutNamespace(c) ==
    [c EXCEPT !.depExists = FALSE, !.depReplicas = 0, !.legacyPod = FALSE,
              !.pvc = FALSE, !.svc = FALSE, !.stsExists = FALSE, !.pod0 = "none",
              !.managedPvc = FALSE, !.managedData = {},
              !.legacyTmp = NoDir, !.pod0Tmp = NoDir]

\* Lines 273-289: after a y the namespace is deleted (a failure ends the
\* script) and so is the volume (a failure is ignored); any other answer
\* cancels.
cleanup ==
    /\ deploy.pc = "cleanup"
    /\ \E REPLY \in Replies :
         LET d == [Enter(deploy, "cleanup") EXCEPT !.REPLY = REPLY]
         IN IF Yes(REPLY)
            THEN IF apps.namespace
                 THEN /\ deploy' = Exited(Say(KubectlAll(d, <<"delete namespace chat-app",
                                                              "delete pv mongodb-pv">>),
                                               "SUCCESS", "Cleanup completed"), 0)
                      /\ apps' = NoApps
                      /\ cluster' = [WithoutNamespace(cluster) EXCEPT !.pv = FALSE]
                 ELSE /\ deploy' = Exited(Kubectl(d, "delete namespace chat-app"), 1)
                      /\ UNCHANGED <<apps, cluster>>
            ELSE /\ deploy' = Exited(Say(d, "INFO", "Cleanup cancelled"), 0)
                 /\ UNCHANGED <<apps, cluster>>
    /\ UNCHANGED deployFrame

\* Lines 292-310 by way of line 351.
show_help ==
    /\ deploy.pc = "show_help"
    /\ deploy' = Exited(Say(Enter(deploy, "show_help"), "HELP", "Usage"), 0)
    /\ UNCHANGED <<cluster, apps, deployFrame>>

\* Lines 353-357: the word is none of the case statement's.
unknown_option ==
    /\ deploy.pc = "unknown"
    /\ deploy' = Exited(Say(Say(Enter(deploy, "show_help"),
                                 "ERROR", "Unknown option"), "HELP", "Usage"), 1)
    /\ UNCHANGED <<cluster, apps, deployFrame>>

\* deploy.sh and the controllers of the objects it creates.
NextDeploy ==
    \/ main
    \/ check_kubectl
    \/ check_cluster
    \/ check_k8s_files
    \/ check_ingress_controller
    \/ deploy_application
    \/ wait_for_statefulset
    \/ wait_for_deployment
    \/ show_status
    \/ show_access_info
    \/ run_health_checks
    \/ cleanup
    \/ show_help
    \/ unknown_option
    \/ BackendBecomesAvailable
    \/ FrontendBecomesAvailable
    \/ StatefulSetCreatesPod
    \/ Pod0BecomesReady

SpecDeploy == InitDeploy /\ [][NextDeploy]_vars

----------------------------------------------------------------------------
\* Vocabulary of the claims about deploy.sh.

IsPrefix(s, t) == Len(s) <= Len(t) /\ \A i \in 1..Len(s) : s[i] = t[i]

\* The functions that carry out an action, as against the checks before them.
ActionFunctions == {"deploy_application", "show_status", "run_health_checks",
                    "show_access_info", "cleanup", "show_help"}
IsActionFunction(f) == f \in ActionFunctions
ActionsRun == SelectSeq(deploy.ran, IsActionFunction)

OwnFunction(word) ==
    CASE word = "deploy" -> "deploy_application"
      [] word = "status" -> "show_status"
      [] word = "health" -> "run_health_checks"
      [] word = "access" -> "show_access_info"
      [] word = "cleanup" -> "cleanup"
      [] word = "help" -> "show_help"

RejectedWithHelp ==
    /\ deploy.exit = 1
    /\ <<"ERROR", "Unknown option">> \in deploy.out
    /\ <<"HELP", "Usage">> \in deploy.out
    /\ deploy.calls = <<>>

\* C17 as stated: without an argument the action is deploy; each of the six
\* words runs no action function but its own; every other argument is rejected
\* with the error and the help text, status 1 and no kubectl call.
C17_EachWordRunsOnlyItsOwnAction ==
    /\ (deploy.arg = NoArg /\ deploy.pc # "main") => deploy.action = "deploy"
    /\ \A w \in Words :
         deploy.arg = w =>
           \A i \in 1..Len(ActionsRun) : ActionsRun[i] = OwnFunction(w)
    /\ (deploy.arg \notin Words \cup {NoArg} /\ deploy.pc = "exited") => RejectedWithHelp

\* The action functions of each branch of the case statement, in order.
BranchOf(action) ==
    IF action = "deploy"
    THEN <<"deploy_application", "show_status", "show_access_info", "run_health_checks">>
    ELSE IF action \in Words THEN <<OwnFunction(action)>> ELSE <<"show_help">>

\* C17, amended: without an argument, or with an empty one, the action is
\* deploy; deploy runs deploy_application and then show_status, show_access_info
\* and run_health_checks, every other word runs its own function only; -h and
\* --help print the help like help, with status 0 and no kubectl call; every
\* other argument is rejected with the error and the help text, status 1 and no
\* kubectl call; only deploy applies and only cleanup deletes.
C17_DispatchFollowsCaseBranch ==
    /\ (deploy.arg \in {NoArg, ""} /\ deploy.pc # "main") => deploy.action = "deploy"
    /\ deploy.pc # "main" => IsPrefix(ActionsRun, BranchOf(deploy.action))
    /\ (deploy.action \in HelpWords /\ deploy.pc = "exited") =>
         /\ deploy.exit = 0
         /\ <<"HELP", "Usage">> \in deploy.out
         /\ deploy.calls = <<>>
    /\ (deploy.pc = "exited" /\ deploy.action \notin Words \cup HelpWords) =>
         RejectedWithHelp
    /\ \A i \in 1..Len(deploy.calls) :
         /\ deploy.calls[i] \in {DeployPlan[k].on : k \in 1..Len(DeployPlan)} =>
              deploy.action = "deploy"
         /\ deploy.calls[i] \in {"delete namespace chat-app", "delete pv mongodb-pv"} =>
              deploy.action = "cleanup"

\* A run without argument that deployed everything and went on to the status,
\* the access information and the health checks.
C17_Witness ==
    /\ deploy.arg = NoArg
    /\ deploy.pc = "exited" /\ deploy.exit = 0
    /\ ActionsRun = BranchOf("deploy")

\* The manifests in the order the claim gives.
ApplyOrder == <<"k8s/namespace.yml", "k8s/secrets.yml", "k8s/mongodb-deployment.yml",
                "k8s/mongodb-headless-service.yml", "k8s/mongodb-service.yml",
                "k8s/backend-deployment.yml", "k8s/backend-service.yml",
                "k8s/frontend-deployment.yml", "k8s/frontend-service.yml",
                "k8s/ingress.yml">>
IsManifest(call) == \E i \in 1..Len(ApplyOrder) : ApplyOrder[i] = call
Applies == SelectSeq(deploy.calls, IsManifest)
HasApplied(file) == \E i \in 1..Len(deploy.calls) : deploy.calls[i] = file

\* C18: deploy.sh applies the manifests in the order namespace, secrets,
\* MongoDB and its two services, backend, frontend, ingress; the backend is
\* applied only with pod mongodb-0 ready, the frontend only with the backend
\* deployment available, the ingress only with the frontend deployment available.
C18_AppliedInOrderBehindWaits ==
    /\ IsPrefix(Applies, ApplyOrder)
    /\ (HasApplied("k8s/backend-deployment.yml") \/ HasApplied("k8s/backend-service.yml"))
         => cluster.pod0 = "ready"
    /\ (HasApplied("k8s/frontend-deployment.yml") \/ HasApplied("k8s/frontend-service.yml"))
         => apps.backend = "available"
    /\ HasApplied("k8s/ingress.yml") => apps.frontend = "available"

\* A deployment onto an empty cluster that got as far as the ingress: each
\* wait was answered by the controllers during the run.
C18_Witness ==
    /\ atStart.pod0 = "none"
    /\ HasApplied("k8s/ingress.yml")
    /\ Applies = ApplyOrder
    /\ deploy.exit = 0

----------------------------------------------------------------------------
(***************************************************************************)
(* The Helm wrapper: the script that installs, upgrades, uninstalls or     *)
(* shows the release chatapp of chart ./helm/chatapp.  `helm` is one run   *)
(* of it: the words of its command line still to be read, its options, its *)
(* position, the helm and kubectl calls it has made, its messages and its  *)
(* exit status.  `releases` is what those calls act on: the release, the   *)
(* namespace its objects are in, and the namespaces that exist.            *)
(***************************************************************************)

\* The namespace of the chart's values.yaml, another one for -n, and the one
\* of the custom values file of the chart's README.
Namespaces == {"chat-app", "staging", "my-chat-app"}

\* The command lines: an action, a namespace, a values file and --dry-run, each
\* given or not, and possibly -h or a word the script does not know.  The
\* release name stays the default.
HelmActions == {"install", "upgrade", "uninstall", "status", "rollback"}
CommandLines ==
    { a \o n \o f \o d \o t :
        a \in {<<>>} \cup {<<"-a", x>> : x \in HelmActions},
        n \in {<<>>, <<"-n", "staging">>, <<"--namespace", "chat-app">>},
        f \in {<<>>, <<"-f", "custom-values.yaml">>},
        d \in {<<>>, <<"--dry-run">>},
        t \in {<<>>, <<"-h">>, <<"--force">>} }

\* The namespace the chart's templates put every object in: .Values.namespace,
\* chat-app in values.yaml unless the file given with -f sets another.
ValuesNamespace(VALUES_FILE) ==
    IF VALUES_FILE = "" THEN "chat-app" ELSE "my-chat-app"

\* The release is absent, or installed with its objects in one namespace.
NoRelease(existing) ==
    [installed |-> FALSE, revision |-> 0, objectsIn |-> "none", namespaces |-> existing]
InitialReleases ==
    { NoRelease(e) : e \in {{}, {"chat-app"}, {"chat-app", "staging"}} }
    \cup { [installed |-> TRUE, revision |-> 1, objectsIn |-> "chat-app",
            namespaces |-> e] : e \in {{"chat-app"}, {"chat-app", "staging"}} }

\* Lines 33-36: the defaults; VALUES_FILE and DRY_RUN are unset.  Action is the
\* script's variable ACTION; replies are the lines `read` has put in REPLY.
StartOfHelm(argv, r) ==
    [argv |-> argv, RELEASE_NAME |-> "chatapp", NAMESPACE |-> "chat-app",
     Action |-> "install", VALUES_FILE |-> "", DRY_RUN |-> "",
     pc |-> "parse", calls |-> <<>>, out |-> {}, replies |-> <<>>,
     exit |-> -1, before |-> r]

InitHelm ==
    /\ releases \in InitialReleases
    /\ helm \in {StartOfHelm(argv, releases) : argv \in CommandLines}
    /\ kubectlOk \in BOOLEAN
    /\ clusterOk \in BOOLEAN
    /\ manifest = ManagedManifest
    /\ deploy = NotRunning
    /\ apps = NotObserved
    /\ test = NotRunning
    /\ cluster \in {c \in InitialClusters : c.legacyData = {} /\ Topology(c) = "Absent"
                                            /\ ~c.pvc /\ ~c.pv /\ ~c.svc}
    /\ pc = "idle"
    /\ OLD_DEPLOYMENT_EXISTS = FALSE
    /\ exitCode = -1
    /\ out = {}
    /\ calls = <<>>
    /\ outcome = NoOutcome
    /\ atStart = cluster
    /\ run = 1
    /\ prevDone = FALSE

\* What the wrapper leaves alone.
helmFrame == <<cluster, manifest, kubectlOk, clusterOk, deploy, apps, test, scriptVars,
               runVars>>

\* A helm or kubectl call: the command, the namespace given with -n ("" when
\* none is given) and whether --dry-run is passed.
Call(cmd, ns, dry) == [cmd |-> cmd, ns |-> ns, dry |-> dry]
Run(h, call) == [h EXCEPT !.calls = Append(h.calls, call)]
Tell(h, level, text) == [h EXCEPT !.out = h.out \cup {<<level, text>>}]
Exit(h, status) == [h EXCEPT !.pc = "exited", !.exit = status]

\* Lines 226-262: one turn of the loop over the command line.
parse_arguments ==
    /\ helm.pc = "parse"
    /\ helm.argv # <<>>
    /\ LET word == Head(helm.argv)
           shift1 == Tail(helm.argv)
           shift2 == Tail(Tail(helm.argv))
       IN helm' =
            CASE word \in {"-h", "--help"} -> Exit(Tell(helm, "USAGE", "Usage"), 0)
              [] word \in {"-a", "--action"} ->
                   [helm EXCEPT !.Action = helm.argv[2], !.argv = shift2]
              [] word \in {"-n", "--namespace"} ->
                   [helm EXCEPT !.NAMESPACE = helm.argv[2], !.argv = shift2]
              [] word \in {"-f", "--values"} ->
                   [helm EXCEPT !.VALUES_FILE = helm.argv[2], !.argv = shift2]
              [] word = "--dry-run" ->
                   [helm EXCEPT !.DRY_RUN = "true", !.argv = shift1]
              [] OTHER ->
                   Exit(Tell(Tell(helm, "ERROR", "Unknown option"), "USAGE", "Usage"), 1)
    /\ UNCHANGED <<releases, helmFrame>>

\* Mutant: an action the case statement does not know shows the status.
dispatchLenient ==
    /\ helm.pc = "parse"
    /\ helm.argv = <<>>
    /\ helm' = CASE helm.Action \in {"install", "upgrade"} ->
                     [helm EXCEPT !.pc = "check_prerequisites"]
                [] helm.Action = "uninstall" -> [helm EXCEPT !.pc = "uninstall_app"]
                [] OTHER -> [helm EXCEPT !.pc = "show_status"]
    /\ UNCHANGED <<releases, helmFrame>>

\* Lines 271-291: the action selects its functions.
dispatch ==
    /\ helm.pc = "parse"
    /\ helm.argv = <<>>
    /\ helm' = CASE helm.Action \in {"install", "upgrade"} ->
                     [helm EXCEPT !.pc = "check_prerequisites"]
                [] helm.Action = "uninstall" -> [helm EXCEPT !.pc = "uninstall_app"]
                [] helm.Action = "status" -> [helm EXCEPT !.pc = "show_status"]
                [] OTHER -> Exit(Tell(helm, "ERROR", "Invalid action"), 1)
    /\ UNCHANGED <<releases, helmFrame>>

\* Lines 60-88: kubectl, the cluster, helm and the chart directory.
check_prerequisites ==
    /\ helm.pc = "check_prerequisites"
    /\ \E helmOk \in BOOLEAN, chartFound \in BOOLEAN :
         helm' =
           IF ~kubectlOk
           THEN Exit(Tell(helm, "ERROR", "kubectl is not installed or not in PATH"), 1)
           ELSE IF ~clusterOk
           THEN Exit(Tell(Run(helm, Call("kubectl cluster-info", "", FALSE)),
                          "ERROR", "Cannot connect to Kubernetes cluster"), 1)
           ELSE IF ~helmOk
           THEN Exit(Tell(Run(helm, Call("kubectl cluster-info", "", FALSE)),
                          "ERROR", "Helm is not installed or not in PATH"), 1)
           ELSE IF ~chartFound
           THEN Exit(Tell(Run(helm, Call("kubectl cluster-info", "", FALSE)),
                          "ERROR", "Helm chart not found"), 1)
           ELSE [Tell(Run(helm, Call("kubectl cluster-info", "", FALSE)),
                      "SUCCESS", "All prerequisites met") EXCEPT
                   !.pc = IF helm.Action = "install" THEN "install_app" ELSE "upgrade_app"]
    /\ UNCHANGED <<releases, helmFrame>>

\* helm install and helm upgrade without --dry-run: the release gets a new
\* revision and its objects are in the namespace of the values.
Deployed(r, VALUES_FILE) ==
    [r EXCEPT !.installed = TRUE, !.revision = r.revision + 1,
              !.objectsIn = ValuesNamespace(VALUES_FILE),
              !.namespaces = r.namespaces \cup {ValuesNamespace(VALUES_FILE)}]

\* Lines 102-114 and 135-147: the command built in `cmd`.  No -n is added: helm
\* is never told of NAMESPACE.
HelmCommand(h, verb) == Call(verb, "", h.DRY_RUN = "true")

\* Lines 117-127 and 150-160: after the command.
AfterHelmCommand(h, ok) ==
    IF ~ok THEN Exit(Tell(h, "ERROR", "failed"), 1)
    ELSE IF h.DRY_RUN # "true"
    THEN [Tell(h, "SUCCESS", "successfully") EXCEPT !.pc = "show_status"]
    ELSE Exit(Tell(h, "SUCCESS", "Dry run completed successfully!"), 0)

\* Mutant: a chart that fails the lint is installed all the same.
install_app_despite_lint ==
    /\ helm.pc = "install_app"
    /\ \E lintOk \in BOOLEAN,
          ok \in IF releases.installed THEN {FALSE} ELSE BOOLEAN :
         LET linted == Run(helm, Call("helm lint", "", FALSE))
             warned == IF lintOk THEN linted
                       ELSE Tell(linted, "ERROR", "Helm chart linting failed")
         IN /\ helm' = AfterHelmCommand(Run(warned, HelmCommand(helm, "helm install")), ok)
            /\ releases' = IF ok /\ helm.DRY_RUN # "true"
                            THEN Deployed(releases, helm.VALUES_FILE)
                            ELSE releases
    /\ UNCHANGED helmFrame

\* Lines 91-128: helm lint, then helm install, which fails when the release
\* name is in use.
install_app ==
    /\ helm.pc = "install_app"
    /\ \E lintOk \in BOOLEAN,
          ok \in IF releases.installed THEN {FALSE} ELSE BOOLEAN :
         LET linted == Run(helm, Call("helm lint", "", FALSE))
         IN IF ~lintOk
            THEN /\ helm' = Exit(Tell(linted, "ERROR", "Helm chart linting failed"), 1)
                 /\ releases' = releases
            ELSE /\ helm' = AfterHelmCommand(Run(linted, HelmCommand(helm, "helm install")), ok)
                 /\ releases' = IF ok /\ helm.DRY_RUN # "true"
                                 THEN Deployed(releases, helm.VALUES_FILE)
                                 ELSE releases
    /\ UNCHANGED helmFrame

\* Lines 131-161: helm upgrade, which fails when there is no such release.
upgrade_app ==
    /\ helm.pc = "upgrade_app"
    /\ \E ok \in IF releases.installed THEN BOOLEAN ELSE {FALSE} :
         /\ helm' = AfterHelmCommand(Run(helm, HelmCommand(helm, "helm upgrade")), ok)
         /\ releases' = IF ok /\ helm.DRY_RUN # "true"
                         THEN Deployed(releases, helm.VALUES_FILE)
                         ELSE releases
    /\ UNCHANGED helmFrame

\* Lines 166 and 178: `read -p ... -r` takes a whole line, not one character.
LineReplies == Replies \cup {"yes"}
Answered(h, reply) == [h EXCEPT !.replies = Append(h.replies, reply)]

\* Mutant: the namespace is offered and deleted although helm uninstall failed.
uninstall_app_always_asking ==
    /\ helm.pc = "uninstall_app"
    /\ \E REPLY \in LineReplies, again \in LineReplies,
          ok \in IF releases.installed THEN BOOLEAN ELSE {FALSE} :
         LET first == Answered(helm, REPLY)
             called == Run(first, Call("helm uninstall", "", FALSE))
             second == Answered(called, again)
             gone == IF ok THEN NoRelease(releases.namespaces) ELSE releases
         IN IF ~Yes(REPLY)
            THEN /\ helm' = Exit(Tell(first, "INFO", "Uninstallation cancelled"), 0)
                 /\ releases' = releases
            ELSE IF Yes(again)
            THEN /\ helm' = Exit(Tell(Run(second, Call("kubectl delete namespace",
                                                       helm.NAMESPACE, FALSE)),
                                       "SUCCESS", "Namespace deleted"), 0)
                 /\ releases' = [gone EXCEPT !.namespaces = @ \ {helm.NAMESPACE}]
            ELSE /\ helm' = Exit(second, 0)
                 /\ releases' = gone
    /\ UNCHANGED helmFrame

\* Lines 164-187: after a y the release is uninstalled, and after a second y
\* the namespace NAMESPACE is deleted.  DRY_RUN is not looked at.
uninstall_app ==
    /\ helm.pc = "uninstall_app"
    /\ \E REPLY \in LineReplies, again \in LineReplies,
          ok \in IF releases.installed THEN BOOLEAN ELSE {FALSE} :
         LET first == Answered(helm, REPLY)
             called == Run(first, Call("helm uninstall", "", FALSE))
             second == Answered(Tell(called, "SUCCESS", "ChatApp uninstalled successfully!"),
                                again)
             gone == NoRelease(releases.namespaces)
         IN IF ~Yes(REPLY)
            THEN /\ helm' = Exit(Tell(first, "INFO", "Uninstallation cancelled"), 0)
                 /\ releases' = releases
            ELSE IF ~ok
            THEN /\ helm' = Exit(Tell(called, "ERROR", "Uninstallation failed"), 1)
                 /\ releases' = releases
            ELSE IF Yes(again)
            THEN /\ helm' = Exit(Tell(Run(second, Call("kubectl delete namespace",
                                                       helm.NAMESPACE, FALSE)),
                                       "SUCCESS", "Namespace deleted"), 0)
                 /\ releases' = [gone EXCEPT !.namespaces = @ \ {helm.NAMESPACE}]
            ELSE /\ helm' = Exit(second, 0)
                 /\ releases' = gone
    /\ UNCHANGED helmFrame

\* Lines 190-223 (show_status of the wrapper): the release, then the pods,
\* services and ingress of NAMESPACE; every failure is only a warning.
helm_show_status ==
    /\ helm.pc = "show_status"
    /\ LET h1 == Run(helm, Call("helm status", "", FALSE))
           h2 == IF releases.installed THEN h1
                 ELSE Tell(h1, "WARNING", "Release not found")
           h3 == Run(Run(Run(h2, Call("kubectl get pods", helm.NAMESPACE, FALSE)),
                         Call("kubectl get services", helm.NAMESPACE, FALSE)),
                     Call("kubectl get ingress", helm.NAMESPACE, FALSE))
           h4 == IF helm.NAMESPACE \in releases.namespaces THEN h3
                 ELSE Tell(h3, "WARNING", "Namespace not found")
       IN helm' = Exit(h4, 0)
    /\ UNCHANGED <<releases, helmFrame>>

NextHelm ==
    \/ parse_arguments
    \/ dispatch
    \/ check_prerequisites
    \/ install_app
    \/ upgrade_app
    \/ uninstall_app
    \/ helm_show_status

SpecHelm == InitHelm /\ [][NextHelm]_vars

----------------------------------------------------------------------------
\* Vocabulary of the claims about the Helm wrapper.

DryRunGiven == helm.DRY_RUN = "true"
MainAction == helm.pc # "parse" /\ helm.Action \in {"install", "upgrade", "uninstall"}

\* The namespaces the calls of the wrapper name with -n.
InspectedNamespaces ==
    { helm.calls[i].ns : i \in { k \in 1..Len(helm.calls) :
                                   helm.calls[k].cmd \in {"kubectl get pods",
                                       "kubectl get services", "kubectl get ingress"} } }
OfferedNamespaces ==
    { helm.calls[i].ns : i \in { k \in 1..Len(helm.calls) :
                                   helm.calls[k].cmd = "kubectl delete namespace" } }

\* C19: with --dry-run no run of install, upgrade or uninstall changes the
\* cluster: the release and the namespaces stay as they were.
C19_DryRunChangesNothing ==
    (DryRunGiven /\ MainAction) => releases = helm.before

\* C20: the namespace of -n/--namespace (default chat-app) is the one the
\* objects of an installed or upgraded release are in, the one show_status
\* inspects and the one uninstall deletes.
C20_NamespaceUsedConsistently ==
    /\ (helm.pc # "parse" /\ releases # helm.before /\ releases.installed) =>
         releases.objectsIn = helm.NAMESPACE
    /\ InspectedNamespaces \subseteq {helm.NAMESPACE}
    /\ OfferedNamespaces \subseteq {helm.NAMESPACE}

ValidHelmActions == {"install", "upgrade", "uninstall", "status"}
UsageShown == <<"USAGE", "Usage">> \in helm.out
InvalidAction == <<"ERROR", "Invalid action">> \in helm.out
UnknownOption == <<"ERROR", "Unknown option">> \in helm.out

----------------------------------------------------------------------------
\* Further claims about migrate-mongodb.sh.

\* The calls of this run that change the workloads or the storage.
IsProvisioningCall(call) == call \in {"scale", "delete pvc", "delete pv", "apply"}
ProvisioningCalls == SelectSeq(calls, IsProvisioningCall)
ProvisioningOrder == <<"scale", "delete pvc", "delete pv", "apply">>

\* C22: on the Legacy path the script scales the Deployment to zero, sees the
\* legacy pod terminated in its wait, deletes the claim and the volume, applies
\* the manifest and sees mongodb-0 ready, in this order and skipping none; the
\* claim is never gone while the legacy pod runs.
C22_ProvisioningStepsInOrder ==
    OLD_DEPLOYMENT_EXISTS =>
        /\ IsPrefix(ProvisioningCalls, ProvisioningOrder)
        /\ Issued("delete pvc") => outcome.waitDelete = "deleted"
        /\ pc \in {"restore", "delete_deployment", "verify", "ping", "report", "done"}
             => Issued("apply") /\ outcome.waitReady = "ok"
        /\ (atStart.pvc /\ ~cluster.pvc) => ~cluster.legacyPod

BackupInvoked ==
    Issued("exec mkdir") \/ Issued("exec mongodump") \/ outcome.backup # "none"

\* C23: the backup (mkdir and mongodump in the legacy pod) is invoked only in
\* a run that found the legacy Deployment and no StatefulSet, and in such a run
\* mongodump comes before every scale, delete and apply.
C23_BackupOnlyOnLegacyAndFirst ==
    /\ BackupInvoked => Topology(atStart) = "Legacy"
    /\ Topology(atStart) = "Legacy" =>
         \A i \in 1..Len(calls) :
           calls[i] \in {"scale", "delete pvc", "delete pv", "apply", "delete deployment"} =>
             \E j \in 1..(i - 1) : calls[j] = "exec mongodump"

\* C23 witness: a run from the Legacy topology has dumped and then applied.
C23_Witness ==
    /\ Topology(atStart) = "Legacy"
    /\ Issued("exec mongodump")
    /\ Issued("scale") /\ Issued("delete pvc") /\ Issued("apply")

IsPing(call) == call = "exec ping"
PingAttempts == Len(SelectSeq(calls, IsPing))
PingWarning == "WARNING MongoDB ping failed"

\* C24: a ping of mongodb-0 that fails is tried again: the script leaves the
\* verification after a failed ping only once it has pinged more than once,
\* and then reports the failure.
C24_FailedPingIsRetried ==
    (outcome.ping = "failed" /\ pc \in {"report", "done"}) =>
        /\ PingAttempts > 1
        /\ SuccessReport \notin out

\* What the script prints for a command that failed.
FailureMessages ==
    ErrorMessages \cup {BackupWarning, RestoreWarning, PingWarning,
                        "WARNING No backup found to restore",
                        "No old PVC to delete", "No old PV to delete"}
FailureShows == out \cap FailureMessages # {} \/ exitCode \notin {-1, 0}

\* C25: every command of the script that fails leaves a trace: its own
\* warning or error in the output, or a run that fails.
C25_NoFailureIsSwallowed ==
    /\ outcome.backup \notin {"none", "ok"} => BackupWarning \in out
    /\ outcome.restore = "failed" => RestoreWarning \in out
    /\ outcome.restore = "nobackup" => "WARNING No backup found to restore" \in out
    /\ outcome.ping = "failed" => PingWarning \in out
    /\ outcome.waitReady \notin {"none", "ok"} => exitCode = 1
    /\ (outcome.rm = "failed" /\ pc \in Terminal) => FailureShows
    /\ (outcome.mkdir = "failed" /\ pc \in Terminal) => FailureShows

\* The commands of the script, one after the other.
ScriptStep ==
    \/ CheckKubectl \/ CheckCluster \/ InspectDeployment \/ InspectStatefulSet
    \/ MkdirBackup \/ Dump \/ ScaleDown \/ WaitForDelete \/ DeletePvc \/ DeletePv
    \/ ApplyManifest \/ WaitReady \/ Restore \/ DeleteDeployment
    \/ VerifyResources \/ Ping \/ Report

\* The script goes on while it has a command to run, and every call returns:
\* a pod that no Deployment wants any more does end, which is what lets the
\* deletion of its claim return.
SpecLive ==
    Init /\ [][Next]_vars /\ WF_vars(ScriptStep) /\ WF_vars(LegacyPodTerminates)

\* C26: every call returning, a run of the script ends: from any position it
\* reaches the success report, the early exit, a failure or the operator's
\* interrupt, and stays in no command for ever.
C26_RunTerminates == (pc \notin Terminal) ~> (pc \in Terminal)

\* C26 witness: a run that had to wait for the legacy pod before the deletion
\* of its claim returned has ended with the success report.
C26_Witness ==
    /\ atStart.legacyPod /\ atStart.pvc
    /\ Issued("delete pvc")
    /\ pc = "done"

----------------------------------------------------------------------------
\* Further claims about deploy.sh.

WaitTargets == {"pod/mongodb-0", "deployment/backend-deployment",
                "deployment/frontend-deployment"}
WaitFailed(what) == <<"ERROR", what>> \in deploy.out
Completed == <<"SUCCESS", "Deployment completed!">> \in deploy.out

\* The manifests deploy_application applies before it waits for `what`.
IsApplyStep(step) == step.op = "apply"
StepOf(what) == CHOOSE k \in 1..Len(DeployPlan) : DeployPlan[k].on = what
AppliedBefore(what) ==
    LET steps == SelectSeq(SubSeq(DeployPlan, 1, StepOf(what)), IsApplyStep)
    IN [i \in 1..Len(steps) |-> steps[i].on]

\* C27: when the wait for pod mongodb-0, for the backend or for the frontend
\* fails, deploy.sh ends with status 1 there: the manifests applied are those
\* before the wait and no other, and "Deployment completed!" is not printed.
C27_FailedWaitEndsDeployment ==
    \A what \in WaitTargets :
        WaitFailed(what) =>
            /\ deploy.pc = "exited" /\ deploy.exit = 1
            /\ Applies = AppliedBefore(what)
            /\ ~Completed

\* C27 witness: MongoDB came up and the backend did not.
C27_Witness ==
    /\ WaitFailed("deployment/backend-deployment")
    /\ <<"SUCCESS", "pod/mongodb-0">> \in deploy.out
    /\ deploy.exit = 1

\* The operator answered y or Y.
Confirmed == deploy.REPLY \in {"y", "Y"}

PreChecks == <<"check_kubectl", "check_cluster", "check_k8s_files",
               "check_ingress_controller">>
CheckErrors ==
    {<<"ERROR", "kubectl is not installed or not in PATH">>,
     <<"ERROR", "Cannot connect to Kubernetes cluster">>,
     <<"ERROR", "Required file not found">>}
IngressMissing == <<"WARNING", "NGINX Ingress Controller not found">> \in deploy.out
CheckFailed ==
    \/ deploy.out \cap CheckErrors # {}
    \/ IngressMissing /\ ~Confirmed
ChecksPassed ==
    /\ kubectlOk /\ clusterOk
    /\ <<"SUCCESS", "All required Kubernetes files found">> \in deploy.out
    /\ \/ <<"SUCCESS", "NGINX Ingress Controller found">> \in deploy.out
       \/ IngressMissing /\ Confirmed
ReadCalls == {"cluster-info", "get pods -n ingress-nginx"}

\* C28: deploy.sh applies its first manifest only after check_kubectl,
\* check_cluster, check_k8s_files and check_ingress_controller have passed in
\* this order, the last by finding the controller or by a y or Y of the
\* operator; a check that fails ends the script with status 1 and the cluster
\* as it was.
C28_ApplyOnlyAfterChecks ==
    deploy.action = "deploy" =>
        /\ Applies # <<>> =>
             /\ ChecksPassed
             /\ IsPrefix(PreChecks, deploy.ran)
        /\ CheckFailed =>
             /\ deploy.pc = "exited" /\ deploy.exit = 1
             /\ \A i \in 1..Len(deploy.calls) : deploy.calls[i] \in ReadCalls
             /\ cluster = atStart

\* C28 witness: no ingress controller, the operator answered y, and the
\* namespace was applied.
C28_Witness ==
    /\ deploy.action = "deploy"
    /\ IngressMissing /\ deploy.REPLY = "y"
    /\ HasApplied("k8s/namespace.yml")

IsDelete(call) == call \in {"delete namespace chat-app", "delete pv mongodb-pv"}
Deletes == SelectSeq(deploy.calls, IsDelete)
Cancelled == <<"INFO", "Cleanup cancelled">> \in deploy.out

\* C29: deploy.sh cleanup issues its deletions of namespace chat-app and of
\* volume mongodb-pv only after a reply of y or Y; after any other reply, the
\* empty one included, it issues none, reports the cancellation and leaves the
\* cluster as it was.
C29_CleanupOnlyOnYes ==
    deploy.action = "cleanup" =>
        /\ Deletes # <<>> => Confirmed
        /\ (deploy.REPLY \in Replies /\ ~Confirmed) =>
             /\ Deletes = <<>>
             /\ Cancelled
             /\ deploy.exit = 0
             /\ cluster = atStart

\* C29 witness: after a Y the namespace and the volume are gone.
C29_Witness ==
    /\ deploy.action = "cleanup"
    /\ deploy.REPLY = "Y"
    /\ Len(Deletes) = 2
    /\ atStart.pv /\ ~cluster.pv

\* The kubectl calls of deploy.sh that only read.
ReadOnlyCalls ==
    {"cluster-info", "get pods -n ingress-nginx", "get namespace chat-app",
     "get all", "get pvc", "get secrets", "get ingress",
     "get pods --field-selector", "get pods -n chat-app", "describe",
     "get endpoints"}
InspectingActions == {"status", "health", "access"} \cup HelpWords

\* C30: with status, health, access or help deploy.sh issues no call that
\* changes the cluster, whatever the cluster holds: it applies, deletes and
\* scales nothing, and the cluster stays as it was.
C30_InspectionChangesNothing ==
    deploy.action \in InspectingActions =>
        /\ \A i \in 1..Len(deploy.calls) : deploy.calls[i] \in ReadOnlyCalls
        /\ Applies = <<>> /\ Deletes = <<>>
        /\ cluster = atStart
        /\ apps \in {NoApps, AllApps}

\* C30 witness: status has listed everything of a deployed application.
C30_Witness ==
    /\ deploy.action = "status"
    /\ deploy.exit = 0
    /\ HasApplied("get ingress")
    /\ apps = AllApps

----------------------------------------------------------------------------
\* Further claims about the Helm wrapper.

\* The commands of this run, in the order they were issued.
HelmCommands == [i \in 1..Len(helm.calls) |-> helm.calls[i].cmd]
HelmInstallRun == \E i \in 1..Len(helm.calls) : helm.calls[i].cmd = "helm install"
PrerequisitesMet == <<"SUCCESS", "All prerequisites met">> \in helm.out
InstallGateErrors ==
    { <<"ERROR", "kubectl is not installed or not in PATH">>,
      <<"ERROR", "Cannot connect to Kubernetes cluster">>,
      <<"ERROR", "Helm is not installed or not in PATH">>,
      <<"ERROR", "Helm chart not found">>,
      <<"ERROR", "Helm chart linting failed">> }
InstallGateFailed == helm.out \cap InstallGateErrors # {}

\* C31: helm install is run only after check_prerequisites passed (kubectl,
\* the cluster, helm, the chart directory) and helm lint succeeded; when one
\* of them fails the run ends with status 1, helm install is not run and no
\* release is created.
C31_InstallOnlyAfterChecksAndLint ==
    /\ HelmInstallRun =>
         /\ helm.Action = "install"
         /\ kubectlOk /\ clusterOk
         /\ PrerequisitesMet
         /\ ~InstallGateFailed
         /\ HelmCommands[1] = "kubectl cluster-info"
         /\ HelmCommands[2] = "helm lint"
         /\ HelmCommands[3] = "helm install"
    /\ (helm.Action = "install" /\ InstallGateFailed) =>
         /\ helm.pc = "exited" /\ helm.exit = 1
         /\ ~HelmInstallRun
         /\ releases = helm.before

\* C31 witness: an install that passed every check and created the release.
C31_Witness ==
    /\ HelmInstallRun
    /\ PrerequisitesMet
    /\ ~helm.before.installed
    /\ releases.installed

\* A reply that starts with y or Y, among the lines the operator can give.
StartsWithY(reply) == reply \in {"y", "Y", "yes"}
CommandAt(cmd) == { i \in 1..Len(helm.calls) : helm.calls[i].cmd = cmd }
Uninstalled == <<"SUCCESS", "ChatApp uninstalled successfully!">> \in helm.out

\* C32: helm uninstall is run only after the operator's first reply starts
\* with y or Y; after any other reply the run ends with status 0 and nothing
\* is changed.  The namespace is deleted only after helm uninstall succeeded
\* and a second reply starts with y or Y.
C32_UninstallAsksTwice ==
    /\ CommandAt("helm uninstall") # {} =>
         /\ helm.Action = "uninstall"
         /\ Len(helm.replies) >= 1 /\ StartsWithY(helm.replies[1])
    /\ (helm.Action = "uninstall" /\ Len(helm.replies) >= 1
          /\ ~StartsWithY(helm.replies[1])) =>
         /\ helm.pc = "exited" /\ helm.exit = 0
         /\ helm.calls = <<>>
         /\ releases = helm.before
    /\ CommandAt("kubectl delete namespace") # {} =>
         /\ \A d \in CommandAt("kubectl delete namespace") :
              \E u \in CommandAt("helm uninstall") : u < d
         /\ Uninstalled
         /\ helm.before.installed /\ ~releases.installed
         /\ Len(helm.replies) = 2 /\ StartsWithY(helm.replies[2])
    /\ releases.namespaces # helm.before.namespaces =>
         \/ CommandAt("kubectl delete namespace") # {}
         \/ helm.Action \in {"install", "upgrade"}

\* C32 witness: the release was uninstalled and, after a second y, the
\* namespace deleted.
C32_Witness ==
    /\ helm.Action = "uninstall"
    /\ helm.replies = <<"y", "Y">>
    /\ Uninstalled
    /\ CommandAt("kubectl delete namespace") # {}
    /\ helm.NAMESPACE \in helm.before.namespaces
    /\ helm.NAMESPACE \notin releases.namespaces

----------------------------------------------------------------------------
(***************************************************************************)
(* test-mongodb.sh: eight numbered tests of the StatefulSet mongodb in     *)
(* namespace chat-app, then the connection information and the final       *)
(* report.  `test` is one run of it: its position, POD_STATUS and          *)
(* PVC_STATUS, the result of each test, its kubectl calls, its messages    *)
(* and its exit status.  The script runs under `set -e`.                   *)
(***************************************************************************)

\* The tests, by their numbers in the script, and the positions of a run: at
\* one of the tests, at the final report, or ended.
Tests == 1..8
Positions == <<"test1", "test2", "test3", "test4", "test5", "test6", "test7", "test8",
               "report">>

\* The phases the jsonpath query of test 7 can answer.  A claim a running pod
\* mounts was bound once; it is Lost when its volume has gone.
PvcPhases == {"Bound", "Lost"}

\* The clusters the tests are run against: the StatefulSet's pod may be
\* missing or not started yet, and its claim may be missing.
TestClusters ==
    { [c EXCEPT !.pod0 = p, !.managedPvc = m] :
        c \in {i \in InitialClusters : i.legacyData = {}},
        p \in {"none", "pending", "ready"}, m \in BOOLEAN }

StartOfTest ==
    [pc |-> Positions[1], POD_STATUS |-> "", PVC_STATUS |-> "",
     results |-> [t \in Tests |-> "none"],
     calls |-> <<>>, out |-> {}, exit |-> -1]

InitTest ==
    /\ cluster \in TestClusters
    /\ test = StartOfTest
    /\ manifest = ManagedManifest
    /\ kubectlOk = TRUE
    /\ clusterOk = TRUE
    /\ deploy = NotRunning
    /\ apps = NotObserved
    /\ helm = NotRunning
    /\ releases = NotObserved
    /\ pc = "idle"
    /\ OLD_DEPLOYMENT_EXISTS = FALSE
    /\ exitCode = -1
    /\ out = {}
    /\ calls = <<>>
    /\ outcome = NoOutcome
    /\ atStart = cluster
    /\ run = 1
    /\ prevDone = FALSE

\* What the script leaves alone.
testFrame == <<cluster, manifest, kubectlOk, clusterOk, deploy, apps, helm, releases,
               scriptVars, runVars>>

Asked(t, call) == [t EXCEPT !.calls = Append(t.calls, call)]
Printed(t, level, text) == [t EXCEPT !.out = t.out \cup {<<level, text>>}]
Passed(t, n) == [t EXCEPT !.results[n] = "passed", !.pc = Positions[n + 1]]
Failed(t, n) == [t EXCEPT !.results[n] = "failed"]
Ended(t, status) == [t EXCEPT !.pc = "exited", !.exit = status]

\* Lines 41-49: kubectl get statefulset mongodb.
test1_statefulset ==
    /\ test.pc = "test1"
    /\ LET t == Asked(test, "get statefulset mongodb")
       IN test' = IF cluster.stsExists
                  THEN Passed(Printed(t, "SUCCESS", "StatefulSet exists and is running"), 1)
                  ELSE Ended(Printed(Failed(t, 1), "ERROR", "StatefulSet not found"), 1)
    /\ UNCHANGED testFrame

\* Lines 53-63: the phase of pod mongodb-0.  Without the pod the command
\* substitution fails and `set -e` ends the script.
test2_pod ==
    /\ test.pc = "test2"
    /\ LET t == Asked(test, "get pod mongodb-0")
           phase == IF cluster.pod0 = "ready" THEN "Running" ELSE "Pending"
           s == [t EXCEPT !.POD_STATUS = phase]
       IN test' = IF cluster.pod0 = "none"
                  THEN Ended(Failed(t, 2), 1)
                  ELSE IF phase = "Running"
                  THEN Passed(Printed(s, "SUCCESS", "Pod is running"), 2)
                  ELSE Ended(Asked(Printed(Failed(s, 2), "ERROR", "Pod is not running"),
                                   "describe pod mongodb-0"), 1)
    /\ UNCHANGED testFrame

\* Lines 67-70: kubectl get svc | grep mongodb; a listing without such a line
\* fails the pipeline and `set -e` ends the script.
test3_services ==
    /\ test.pc = "test3"
    /\ LET t == Asked(test, "get svc")
       IN test' = IF cluster.svc
                  THEN Passed(Printed(t, "SUCCESS", "Services are available"), 3)
                  ELSE Ended(Failed(t, 3), 1)
    /\ UNCHANGED testFrame

\* Lines 74-81: ping through kubectl exec.
test4_ping ==
    /\ test.pc = "test4"
    /\ \E ok \in BOOLEAN :
         LET t == Asked(test, "exec ping")
         IN test' = IF ok
                    THEN Passed(Printed(t, "SUCCESS", "MongoDB is responding to ping"), 4)
                    ELSE Ended(Printed(Failed(t, 4), "ERROR", "MongoDB ping failed"), 1)
    /\ UNCHANGED testFrame

\* Lines 85-92: ping as root.
test5_authentication ==
    /\ test.pc = "test5"
    /\ \E ok \in BOOLEAN :
         LET t == Asked(test, "exec ping -u root")
         IN test' = IF ok
                    THEN Passed(Printed(t, "SUCCESS", "MongoDB authentication works"), 5)
                    ELSE Ended(Printed(Failed(t, 5), "ERROR",
                                       "MongoDB authentication failed"), 1)
    /\ UNCHANGED testFrame

\* Lines 96-103: nc to mongodb-service from a busybox pod.
test6_connectivity ==
    /\ test.pc = "test6"
    /\ \E ok \in BOOLEAN :
         LET t == Asked(test, "run test-connectivity")
         IN test' = IF ok
                    THEN Passed(Printed(t, "SUCCESS", "Service connectivity works"), 6)
                    ELSE Ended(Printed(Failed(t, 6), "ERROR",
                                       "Service connectivity failed"), 1)
    /\ UNCHANGED testFrame

\* Lines 107-115: kubectl get pvc | grep mongodb, then the phase of claim
\* mongodb-storage-mongodb-0.  A phase other than Bound is reported and the
\* script goes on: the else branch has no exit.
test7_pvc ==
    /\ test.pc = "test7"
    /\ \E phase \in PvcPhases :
         LET listed == Asked(test, "get pvc")
             t == Asked(listed, "get pvc mongodb-storage-mongodb-0")
             s == [t EXCEPT !.PVC_STATUS = phase]
         IN test' = IF ~(cluster.pvc \/ cluster.managedPvc)
                    THEN Ended(Failed(listed, 7), 1)
                    ELSE IF ~cluster.managedPvc
                    THEN Ended(Failed(t, 7), 1)
                    ELSE IF phase = "Bound"
                    THEN Passed(Printed(s, "SUCCESS", "Persistent volume is bound"), 7)
                    ELSE [Printed(Failed(s, 7), "ERROR", "Persistent volume issue")
                            EXCEPT !.pc = "test8"]
    /\ UNCHANGED testFrame

\* Lines 119-126: insertOne and findOne, `&& print_success || print_warning`.
test8_database ==
    /\ test.pc = "test8"
    /\ \E ok \in BOOLEAN :
         LET t == Asked(test, "exec insertOne")
         IN test' = IF ok
                    THEN Passed(Printed(t, "SUCCESS", "Database operations work"), 8)
                    ELSE [Printed(Failed(t, 8), "WARNING", "Database operations had issues")
                            EXCEPT !.pc = "report"]
    /\ UNCHANGED testFrame

\* Lines 130-157: the connection information and the final report.
report ==
    /\ test.pc = "report"
    /\ test' = Ended(Printed(test, "SUCCESS", "MongoDB StatefulSet is working correctly!"), 0)
    /\ UNCHANGED testFrame

NextTest ==
    \/ test1_statefulset
    \/ test2_pod
    \/ test3_services
    \/ test4_ping
    \/ test5_authentication
    \/ test6_connectivity
    \/ test7_pvc
    \/ test8_database
    \/ report

SpecTest == InitTest /\ [][NextTest]_vars

----------------------------------------------------------------------------
\* Claim about test-mongodb.sh.

WorkingCorrectly == <<"SUCCESS", "MongoDB StatefulSet is working correctly!">> \in test.out
ErrorReported == \E m \in test.out : m[1] = "ERROR"
AllTestsPassed == \A t \in Tests : test.results[t] = "passed"

\* C33: test-mongodb.sh prints "MongoDB StatefulSet is working correctly!"
\* and ends with status 0 only when each of its eight tests passed; a run in
\* which a test reported an error ends with another status and without that
\* message.
C33_SuccessOnlyIfAllTestsPassed ==
    /\ WorkingCorrectly => AllTestsPassed
    /\ (test.pc = "exited" /\ test.exit = 0) => AllTestsPassed
    /\ (test.pc = "exited" /\ ErrorReported) => test.exit # 0 /\ ~WorkingCorrectly
====
